---------------------------- MODULE Spec2Model ----------------------------
(***************************************************************************)
(* A model of pdf_to_markdown.py: the chunker _chunk_text as an operator   *)
(* on strings, and convert_to_markdown as a sequential process whose steps *)
(* are its external calls (open, page read, close, format calls, write).   *)
(*                                                                         *)
(* Strings are TLA+ strings; Len, \o and SubSeq act on them as on Python   *)
(* str.  Lists of strings are sequences.                                   *)
(***************************************************************************)
EXTENDS Integers, Sequences, FiniteSets, TLC

VARIABLES
    \* ---- a call of _chunk_text (src/pdf_to_markdown.py:109) ----
    text,             \* argument text
    max_chunk_size,   \* argument max_chunk_size
    returned,         \* the state of its loops at return: the list and the separators consumed
    cpc,              \* "call" before the call, "return" after it, "idle" when there is none
    \* ---- a run of convert_to_markdown (src/pdf_to_markdown.py:155) ----
    pc,               \* position of the run
    pdf,              \* the document at pdf_path: whether it exists, and its pages
    reply_size,       \* length of the texts the endpoint generates in this run
    handle,           \* the fitz document handle: "none", "open", "closed"
    pages,            \* list built by extract_text_from_pdf
    i,                \* index of the page being processed (0-based, as enumerate)
    chunks,           \* chunks of the current page
    j,                \* index of the chunk being processed (0-based)
    processed_chunks, \* outputs of the chunk calls of the current page
    full_content,     \* the full-document buffer
    offset,           \* loop variable of the section loop
    final_content,    \* concatenated section outputs
    final_markdown,   \* result of the document phase
    output_path,      \* argument output_path ("" for None)
    output_file,      \* the file at output_path
    \* ---- history of the run (what an observer of the endpoint and disk sees) ----
    calls,            \* the format calls issued so far, with their replies, in order
    writes            \* number of times the output file was opened for writing

cvars == <<text, max_chunk_size, returned, cpc>>
rvars == <<pc, pdf, reply_size, handle, pages, i, chunks, j, processed_chunks, full_content,
           offset, final_content, final_markdown, output_path, output_file, calls,
           writes>>
vars == <<cvars, rvars>>

-----------------------------------------------------------------------------
(* Bounds of the model.                                                    *)

\* longest text given to _chunk_text in Spec
MaxLen == 6
\* largest max_chunk_size given to _chunk_text in Spec
MaxSize == 4
\* most pages of a document in SpecConvert
MaxPages == 2

-----------------------------------------------------------------------------
(* Strings.                                                                *)

Min(a, b) == IF a <= b THEN a ELSE b

\* s[i-1] of Python, as a one-character string
Char(s, k) == SubSeq(s, k, k)

\* s[a:b] of Python for 0 <= a <= b: clipped to the length of s
Slice(s, a, b) == IF a >= Len(s) THEN "" ELSE SubSeq(s, a + 1, Min(b, Len(s)))

\* c * n
RECURSIVE Rep(_, _)
Rep(c, n) ==
    IF n = 0 THEN ""
    ELSE LET h == Rep(c, n \div 2)
         IN  IF n % 2 = 0 THEN h \o h ELSE (h \o h) \o c

\* the characters \s matches among those of the model
Whitespace == {" ", "\n"}
\* the characters [.!?] matches
Punct == {".", "!", "?"}

\* The pieces of s left when the cuts, a set of disjoint <<first, last>> index
\* ranges, are taken out: one more piece than there are cuts, in order.
Pieces(s, cuts) ==
    LET n   == Cardinality(cuts)
        cut == [k \in 1..n |->
                  CHOOSE c \in cuts : Cardinality({d \in cuts : d[1] < c[1]}) = k - 1]
    IN  [k \in 1..(n + 1) |->
            SubSeq(s, IF k = 1 THEN 1 ELSE cut[k - 1][2] + 1,
                      IF k = n + 1 THEN Len(s) ELSE cut[k][1] - 1)]

\* first index of the maximal run of members of P that holds k
RunFirst(P, k) == CHOOSE a \in P : a <= k /\ (a - 1) \notin P /\ \A b \in a..k : b \in P
\* last index of the maximal run of members of P that holds k
RunLast(P, k) == CHOOSE a \in P : a >= k /\ (a + 1) \notin P /\ \A b \in k..a : b \in P

\* the occurrences of "\n\n" str.split finds: leftmost first, not overlapping
BlankLineCuts(s) ==
    LET N == {k \in 1..Len(s) : Char(s, k) = "\n"}
    IN  {<<k, k + 1>> : k \in {m \in N : (m + 1) \in N /\ (m - RunFirst(N, m)) % 2 = 0}}

\* text.split("\n\n")
SplitParagraphs(s) == Pieces(s, BlankLineCuts(s))

\* the matches of (?<=[.!?])\s+ : whole runs of whitespace right after . ! or ?
SentenceCuts(s) ==
    LET W == {k \in 1..Len(s) : Char(s, k) \in Whitespace}
    IN  {<<k, RunLast(W, k)>> : k \in {m \in W : m > 1 /\ Char(s, m - 1) \in Punct}}

\* re.split(r"(?<=[.!?])\s+", paragraph)
SplitSentences(s) == Pieces(s, SentenceCuts(s))

-----------------------------------------------------------------------------
(* _chunk_text.  The state of its loops is chunks and current_chunk; seps  *)
(* records, for every chunk appended, the separator the split took out of  *)
(* the text at the boundary that follows the chunk: a blank line between   *)
(* paragraphs, a space between sentences, and nothing where the append     *)
(* comes before the first sentence of a paragraph or at the end.           *)

ParagraphSep == "\n\n"
SentenceSep == " "

\* line 126 without the two characters of the joining blank line
ParagraphFits_NoSeparator(current_chunk, paragraph, max) ==
    Len(current_chunk) + Len(paragraph) <= max

\* line 126
ParagraphFits(current_chunk, paragraph, max) ==
    Len(current_chunk) + Len(paragraph) + 2 <= max

\* lines 127-129 joining with one newline
AddParagraph_SingleNewline(current_chunk, paragraph) ==
    IF current_chunk # "" THEN (current_chunk \o "\n") \o paragraph
    ELSE paragraph

\* lines 127-129
AddParagraph(current_chunk, paragraph) ==
    IF current_chunk # "" THEN (current_chunk \o ParagraphSep) \o paragraph
    ELSE paragraph

\* line 140
SentenceFits(current_chunk, sentence, max) ==
    Len(current_chunk) + Len(sentence) + 1 <= max

\* lines 141-143 joining with nothing
AddSentence_NoSpace(current_chunk, sentence) == current_chunk \o sentence

\* lines 141-143
AddSentence(current_chunk, sentence) ==
    IF current_chunk # "" THEN (current_chunk \o SentenceSep) \o sentence
    ELSE sentence

\* lines 131-132 and 150-151 with the append left out
Flush_Never(st, sep) == st

\* lines 131-132 and 150-151: append the accumulator when it is not empty
Flush(st, sep) ==
    IF st.current_chunk # ""
    THEN [st EXCEPT !.chunks = Append(st.chunks, st.current_chunk),
                    !.seps = Append(st.seps, sep)]
    ELSE st

\* lines 145-146: append the accumulator, whatever it holds, and restart it
FlushSentence(st, sentence) ==
    [chunks |-> Append(st.chunks, st.current_chunk),
     seps |-> Append(st.seps, IF st.current_chunk = "" THEN "" ELSE SentenceSep),
     current_chunk |-> sentence]

\* lines 139-146
RECURSIVE SentenceLoop(_, _, _, _)
SentenceLoop(sentences, k, st, max) ==
    IF k > Len(sentences) THEN st
    ELSE IF SentenceFits(st.current_chunk, sentences[k], max)
         THEN SentenceLoop(sentences, k + 1,
                  [st EXCEPT !.current_chunk = AddSentence(st.current_chunk, sentences[k])],
                  max)
         ELSE SentenceLoop(sentences, k + 1, FlushSentence(st, sentences[k]), max)

\* lines 125-148
RECURSIVE ParagraphLoop(_, _, _, _)
ParagraphLoop(paragraphs, k, st, max) ==
    IF k > Len(paragraphs) THEN st
    ELSE LET paragraph == paragraphs[k] IN
         IF ParagraphFits(st.current_chunk, paragraph, max)
         THEN ParagraphLoop(paragraphs, k + 1,
                  [st EXCEPT !.current_chunk = AddParagraph(st.current_chunk, paragraph)],
                  max)
         ELSE LET flushed == Flush(st, ParagraphSep) IN
              IF Len(paragraph) > max
              THEN ParagraphLoop(paragraphs, k + 1,
                       SentenceLoop(SplitSentences(paragraph), 1,
                                    [flushed EXCEPT !.current_chunk = ""], max),
                       max)
              ELSE ParagraphLoop(paragraphs, k + 1,
                       [flushed EXCEPT !.current_chunk = paragraph], max)

\* lines 121-153, with the separators consumed
ChunkRun(t, max) ==
    Flush(ParagraphLoop(SplitParagraphs(t), 1,
                        [chunks |-> <<>>, seps |-> <<>>, current_chunk |-> ""], max),
          "")

\* _chunk_text(text, max_chunk_size)
_chunk_text(t, max) == ChunkRun(t, max).chunks

-----------------------------------------------------------------------------
(* Spec: one call of _chunk_text on any text over Alphabet up to MaxLen    *)
(* characters and any max_chunk_size in 1..MaxSize.                        *)

Alphabet == {"a", ".", " ", "\n"}

RECURSIVE StringsUpTo(_)
StringsUpTo(n) ==
    IF n = 0 THEN {""}
    ELSE LET S == StringsUpTo(n - 1) IN S \cup {s \o c : s \in S, c \in Alphabet}

IdleRun ==
    /\ pc = "idle" /\ pdf = [exists |-> FALSE, pages |-> <<>>] /\ reply_size = 0
    /\ handle = "none" /\ pages = <<>>
    /\ i = 0 /\ chunks = <<>> /\ j = 0 /\ processed_chunks = <<>>
    /\ full_content = "" /\ offset = 0 /\ final_content = ""
    /\ final_markdown = "" /\ output_path = ""
    /\ output_file = [exists |-> FALSE, content |-> ""]
    /\ calls = <<>> /\ writes = 0

NoRun == [chunks |-> <<>>, seps |-> <<>>, current_chunk |-> ""]

Init ==
    /\ text \in StringsUpTo(MaxLen)
    /\ max_chunk_size \in 1..MaxSize
    /\ returned = NoRun
    /\ cpc = "call"
    /\ IdleRun

ChunkText ==
    /\ cpc = "call"
    /\ returned' = ChunkRun(text, max_chunk_size)
    /\ cpc' = "return"
    /\ UNCHANGED <<text, max_chunk_size, rvars>>

Next == ChunkText

Spec == Init /\ [][Next]_vars

-----------------------------------------------------------------------------
(* convert_to_markdown.  The documents, the replies of the endpoint and    *)
(* the state of the output path are the inputs of a run.                   *)

\* line 179 and the default of max_chunk_size, line 109
PageLimit == 8000
DefaultMaxChunkSize == 8000
\* line 227
DocumentLimit == 12000
\* lines 231-232
section_size == 10000
overlap == 1000
\* line 104
StatusOk == 200

\* The pages a document is made of: each is the list of the texts of its
\* blocks, and get_text("text") of the page is their concatenation.
Paragraph4000 == Rep("a", 4000)
Paragraph5000 == Rep("b", 5000)
Text8000 == Rep("c", 8000)
Text8001 == Rep("d", 8001)

PageInputs ==
    { [text |-> "",                blocks |-> <<>>],
      [text |-> "Title\nBody.\n",  blocks |-> <<"Title\n", "Body.\n">>],
      [text |-> Text8000,          blocks |-> <<Text8000>>],
      [text |-> (Paragraph4000 \o "\n\n") \o Paragraph5000,
                                   blocks |-> <<(Paragraph4000 \o "\n\n") \o Paragraph5000>>],
      [text |-> Text8001,          blocks |-> <<Text8001>>] }

RECURSIVE SeqsUpTo(_, _)
SeqsUpTo(S, n) ==
    IF n = 0 THEN {<<>>}
    ELSE LET Q == SeqsUpTo(S, n - 1) IN Q \cup {Append(q, x) : q \in Q, x \in S}

Documents ==
    {[exists |-> FALSE, pages |-> <<>>]}
        \cup {[exists |-> TRUE, pages |-> d] : d \in SeqsUpTo(PageInputs, MaxPages)}

\* The replies of the endpoint to a call: status 200 with a generated text, or
\* another status.  The generated texts of a run have one length, reply_size,
\* and the text of the k-th call is filled with the k-th letter, so that the
\* outputs of different calls differ.
ReplySizes == {5998, 9300}
Letters == "ABCDEFGHIJKLMNOPQRSTUVWXYZ"
Generated(k, n) == Rep(Char(Letters, ((k - 1) % Len(Letters)) + 1), n)
Replies ==
    {[status |-> StatusOk, response |-> Generated(Len(calls) + 1, reply_size)],
     [status |-> 500, response |-> ""]}

\* lines 49-77: the record of one page.  The unpacking at line 64 rebinds
\* text to the text of each block in turn, so that the record holds the text of
\* the last block when the page has blocks, and the page text when it has none.
PageRecord(page_num, page) ==
    [page_num |-> page_num + 1,
     text |-> IF page.blocks = <<>> THEN page.text
              ELSE page.blocks[Len(page.blocks)]]

\* lines 104-107 returning the text of the reply whatever its status
Raises_Never(reply) == FALSE

\* lines 104-107: process_with_gemma raises unless the status is 200
Raises(reply) == reply.status # StatusOk

\* line 179 with >= for >
NeedsChunking_Inclusive(page_text) == Len(page_text) >= PageLimit

\* line 179
NeedsChunking(page_text) == Len(page_text) > PageLimit

\* line 227
NeedsSections(content) == Len(content) > DocumentLimit

\* line 234 stepping by the whole section
Stride_NoOverlap == section_size

\* line 234: the step of the range
Stride == section_size - overlap

\* line 235
Section(content, at) == Slice(content, at, at + section_size)

\* line 194: "\n\n".join(processed_chunks)
RECURSIVE JoinChunks(_)
JoinChunks(list) ==
    IF list = <<>> THEN ""
    ELSE IF Len(list) = 1 THEN list[1]
    ELSE (list[1] \o "\n\n") \o JoinChunks(Tail(list))

\* line 215 with the operands swapped
AppendPage_Prepend(content, processed_content) == (processed_content \o "\n\n") \o content

\* line 215
AppendPage(content, processed_content) == (content \o processed_content) \o "\n\n"

\* the request of process_with_gemma, lines 99-102, as the endpoint sees it
Issue(kind, page, index, at, content, reply) ==
    calls' = Append(calls, [kind |-> kind, page |-> page, index |-> index,
                            at |-> at, content |-> content,
                            status |-> reply.status, response |-> reply.response])

InitConvert ==
    /\ text = "" /\ max_chunk_size = DefaultMaxChunkSize
    /\ returned = NoRun /\ cpc = "idle"
    /\ pc = "open"
    /\ pdf \in Documents
    /\ reply_size \in ReplySizes
    /\ handle = "none" /\ pages = <<>>
    /\ i = 0 /\ chunks = <<>> /\ j = 0 /\ processed_chunks = <<>>
    /\ full_content = "" /\ offset = 0 /\ final_content = ""
    /\ final_markdown = ""
    /\ output_path \in {"", "out.md"}
    /\ output_file \in {[exists |-> FALSE, content |-> ""],
                        [exists |-> TRUE, content |-> "old"]}
    /\ calls = <<>> /\ writes = 0

\* line 46: fitz.open raises when the path names no PDF
OpenDocument ==
    /\ pc = "open"
    /\ IF pdf.exists
       THEN handle' = "open" /\ pc' = "read"
       ELSE handle' = handle /\ pc' = "error"
    /\ UNCHANGED <<cvars, pdf, reply_size, pages, i, chunks, j, processed_chunks, full_content,
                   offset, final_content, final_markdown, output_path, output_file,
                   calls, writes>>

\* lines 49-77: one turn of the page loop; get_text may raise (a damaged or
\* encrypted page), and nothing between lines 46 and 79 catches it
ReadPage ==
    /\ pc = "read"
    /\ Len(pages) < Len(pdf.pages)
    /\ \E readable \in BOOLEAN :
          IF readable
          THEN /\ pages' = Append(pages, PageRecord(Len(pages), pdf.pages[Len(pages) + 1]))
               /\ pc' = "read"
          ELSE /\ pages' = pages
               /\ pc' = "error"
    /\ UNCHANGED <<cvars, pdf, reply_size, handle, i, chunks, j, processed_chunks, full_content,
                   offset, final_content, final_markdown, output_path, output_file,
                   calls, writes>>

\* lines 79-80 and 171: document.close(), return, full_content = ""
CloseDocument ==
    /\ pc = "read"
    /\ Len(pages) = Len(pdf.pages)
    /\ handle' = "closed"
    /\ full_content' = ""
    /\ i' = 0
    /\ pc' = "page"
    /\ UNCHANGED <<cvars, pdf, reply_size, pages, chunks, j, processed_chunks,
                   offset, final_content, final_markdown, output_path, output_file,
                   calls, writes>>

\* lines 172-181 and 226-232: the head of the page loop and, after the last
\* page, the choice of the document phase
NextPage ==
    /\ pc = "page"
    /\ IF i < Len(pages)
       THEN IF NeedsChunking(pages[i + 1].text)
            THEN /\ chunks' = _chunk_text(pages[i + 1].text, DefaultMaxChunkSize)
                 /\ processed_chunks' = <<>>
                 /\ j' = 0
                 /\ pc' = "chunk"
                 /\ UNCHANGED <<offset, final_content>>
            ELSE /\ pc' = "direct"
                 /\ UNCHANGED <<chunks, processed_chunks, j, offset, final_content>>
       ELSE IF NeedsSections(full_content)
            THEN /\ final_content' = ""
                 /\ offset' = 0
                 /\ pc' = "section"
                 /\ UNCHANGED <<chunks, processed_chunks, j>>
            ELSE /\ pc' = "final"
                 /\ UNCHANGED <<chunks, processed_chunks, j, offset, final_content>>
    /\ UNCHANGED <<cvars, pdf, reply_size, handle, pages, i, full_content, final_markdown,
                   output_path, output_file, calls, writes>>

\* lines 183-191: the call for chunk j + 1 of the page
ChunkCall ==
    /\ pc = "chunk"
    /\ j < Len(chunks)
    /\ \E reply \in Replies :
          /\ Issue("chunk", pages[i + 1].page_num, j + 1, 0, chunks[j + 1], reply)
          /\ IF Raises(reply)
             THEN pc' = "error" /\ UNCHANGED <<j, processed_chunks>>
             ELSE /\ processed_chunks' = Append(processed_chunks, reply.response)
                  /\ j' = j + 1
                  /\ pc' = "chunk"
    /\ UNCHANGED <<cvars, pdf, reply_size, handle, pages, i, chunks, full_content, offset,
                   final_content, final_markdown, output_path, output_file,
                   writes>>

\* lines 194-202 and 215: the merge call of a chunked page
MergeCall ==
    /\ pc = "chunk"
    /\ j = Len(chunks)
    /\ \E reply \in Replies :
          /\ Issue("merge", pages[i + 1].page_num, 0, 0, JoinChunks(processed_chunks), reply)
          /\ IF Raises(reply)
             THEN pc' = "error" /\ UNCHANGED <<i, full_content>>
             ELSE /\ full_content' = AppendPage(full_content, reply.response)
                  /\ i' = i + 1
                  /\ pc' = "page"
    /\ UNCHANGED <<cvars, pdf, reply_size, handle, pages, chunks, j, processed_chunks, offset,
                   final_content, final_markdown, output_path, output_file, writes>>

\* lines 205-215: the single call of a page that is not chunked
DirectCall ==
    /\ pc = "direct"
    /\ \E reply \in Replies :
          /\ Issue("direct", pages[i + 1].page_num, 0, 0, pages[i + 1].text, reply)
          /\ IF Raises(reply)
             THEN pc' = "error" /\ UNCHANGED <<i, full_content>>
             ELSE /\ full_content' = AppendPage(full_content, reply.response)
                  /\ i' = i + 1
                  /\ pc' = "page"
    /\ UNCHANGED <<cvars, pdf, reply_size, handle, pages, chunks, j, processed_chunks, offset,
                   final_content, final_markdown, output_path, output_file, writes>>

\* lines 234-243: one turn of the section loop
SectionCall ==
    /\ pc = "section"
    /\ offset < Len(full_content)
    /\ \E reply \in Replies :
          /\ Issue("section", 0, offset \div Stride + 1, offset,
                   Section(full_content, offset), reply)
          /\ IF Raises(reply)
             THEN pc' = "error" /\ UNCHANGED <<offset, final_content>>
             ELSE /\ final_content' = final_content \o reply.response
                  /\ offset' = offset + Stride
                  /\ pc' = "section"
    /\ UNCHANGED <<cvars, pdf, reply_size, handle, pages, i, chunks, j, processed_chunks,
                   full_content, final_markdown, output_path, output_file,
                   writes>>

\* lines 246-251: the boundary-cleanup call after the last section
CleanupCall ==
    /\ pc = "section"
    /\ offset >= Len(full_content)
    /\ \E reply \in Replies :
          /\ Issue("cleanup", 0, 0, 0, final_content, reply)
          /\ IF Raises(reply)
             THEN pc' = "error" /\ UNCHANGED final_markdown
             ELSE final_markdown' = reply.response /\ pc' = "save"
    /\ UNCHANGED <<cvars, pdf, reply_size, handle, pages, i, chunks, j, processed_chunks,
                   full_content, offset, final_content, output_path, output_file,
                   writes>>

\* line 253: the single final call over a buffer within the limit
FinalCall ==
    /\ pc = "final"
    /\ \E reply \in Replies :
          /\ Issue("final", 0, 0, 0, full_content, reply)
          /\ IF Raises(reply)
             THEN pc' = "error" /\ UNCHANGED final_markdown
             ELSE final_markdown' = reply.response /\ pc' = "save"
    /\ UNCHANGED <<cvars, pdf, reply_size, handle, pages, i, chunks, j, processed_chunks,
                   full_content, offset, final_content, output_path, output_file,
                   writes>>

\* lines 256-261: write the file when a path was given, and return
Save ==
    /\ pc = "save"
    /\ IF output_path # ""
       THEN /\ output_file' = [exists |-> TRUE, content |-> final_markdown]
            /\ writes' = writes + 1
       ELSE UNCHANGED <<output_file, writes>>
    /\ pc' = "done"
    /\ UNCHANGED <<cvars, pdf, reply_size, handle, pages, i, chunks, j, processed_chunks,
                   full_content, offset, final_content, final_markdown, output_path,
                   calls>>

NextConvert ==
    \/ OpenDocument
    \/ ReadPage
    \/ CloseDocument
    \/ NextPage
    \/ ChunkCall
    \/ MergeCall
    \/ DirectCall
    \/ SectionCall
    \/ CleanupCall
    \/ FinalCall
    \/ Save

SpecConvert == InitConvert /\ [][NextConvert]_vars

-----------------------------------------------------------------------------
(* Properties of _chunk_text, stated of the state after the call in Spec.  *)

Range(f) == {f[k] : k \in DOMAIN f}

Returned == cpc = "return"

\* the sentences longer than max of the paragraphs longer than max
OversizedSentences(t, max) ==
    UNION {{s \in Range(SplitSentences(p)) : Len(s) > max} :
              p \in {q \in Range(SplitParagraphs(t)) : Len(q) > max}}

\* C1: every returned chunk is at most max_chunk_size long, unless it is exactly
\* one sentence of the text that is itself longer than max_chunk_size, emitted
\* whole and alone (it holds no sentence boundary and no blank line).
C1_ChunkSizeBound ==
    Returned =>
        \A k \in DOMAIN returned.chunks :
            LET c == returned.chunks[k] IN
            \/ Len(c) <= max_chunk_size
            \/ /\ c \in OversizedSentences(text, max_chunk_size)
               /\ SentenceCuts(c) = {}
               /\ BlankLineCuts(c) = {}

\* an oversized sentence was emitted right after a chunk that is not empty
C1_Witness ==
    /\ Returned
    /\ \E k \in DOMAIN returned.chunks :
          /\ k > 1
          /\ Len(returned.chunks[k]) > max_chunk_size
          /\ returned.chunks[k - 1] # ""

\* the chunks put together again with the separators consumed between them
RECURSIVE Rejoin(_, _)
Rejoin(list, seps) ==
    IF list = <<>> THEN ""
    ELSE IF Len(list) = 1 THEN list[1]
    ELSE (list[1] \o seps[1]) \o Rejoin(Tail(list), Tail(seps))

Tidy(t, max) ==
    \A p \in Range(SplitParagraphs(t)) :
        /\ p # ""
        /\ Len(p) > max =>
              \A c \in SentenceCuts(p) :
                  c[1] = c[2] /\ Char(p, c[1]) = " " /\ c[2] < Len(p)

AllParagraphsEmpty(t) == \A p \in Range(SplitParagraphs(t)) : p = ""

\* C3 as stated: at least one chunk for every text that is not empty, and none
\* for the empty text.
C3_ChunkForNonEmptyText ==
    Returned => IF text = "" THEN returned.chunks = <<>>
                ELSE Len(returned.chunks) >= 1

\* C3 amended: at least one chunk for every text with a paragraph that is not
\* empty, and none for a text made of blank-line separators only (the empty
\* text among them).
C3_ChunkForNonEmptyParagraph ==
    Returned => IF AllParagraphsEmpty(text) THEN returned.chunks = <<>>
                ELSE Len(returned.chunks) >= 1

\* a text of blank lines only came back as no chunk at all
C3_Witness ==
    /\ Returned
    /\ text # ""
    /\ AllParagraphsEmpty(text)
    /\ returned.chunks = <<>>

\* the maximal runs of whitespace of s
WhitespaceRuns(s) ==
    LET W == {k \in 1..Len(s) : Char(s, k) \in Whitespace}
    IN  {<<k, RunLast(W, k)>> : k \in {m \in W : (m - 1) \notin W}}

\* the words of s: its maximal runs of characters that are not whitespace
Words(s) == SelectSeq(Pieces(s, WhitespaceRuns(s)), LAMBDA w : w # "")

RECURSIVE WordsOfAll(_)
WordsOfAll(list) ==
    IF list = <<>> THEN <<>> ELSE Words(list[1]) \o WordsOfAll(Tail(list))

\* C9: the words of the chunks, in chunk order, are the words of the text in
\* the same order: no character that is not whitespace is dropped, duplicated
\* or moved, and no word is split across two chunks or glued to another.
C9_WordsPreserved ==
    Returned => WordsOfAll(returned.chunks) = Words(text)

\* several chunks, one of them holding two words, and whitespace was dropped
C9_Witness ==
    /\ Returned
    /\ Len(returned.chunks) >= 2
    /\ \E k \in DOMAIN returned.chunks : Len(Words(returned.chunks[k])) >= 2
    /\ Len(Rejoin(returned.chunks, returned.seps)) < Len(text)

\* C10: no returned chunk is the empty string, and no chunk call of a run of
\* convert_to_markdown has empty content.
C10_NoEmptyChunk ==
    /\ Returned => \A k \in DOMAIN returned.chunks : returned.chunks[k] # ""
    /\ \A k \in DOMAIN calls : calls[k].kind = "chunk" => calls[k].content # ""

-----------------------------------------------------------------------------
(* Properties of convert_to_markdown, stated of the states of SpecConvert. *)

InitialFiles == {[exists |-> FALSE, content |-> ""], [exists |-> TRUE, content |-> "old"]}

\* the run is inside process_with_gemma, or has ended
AtFormatCall == pc \in {"chunk", "direct", "section", "final"}
Ended == pc \in {"done", "error"}
Succeeded == pc \in {"save", "done"}

CallsOfKind(K) == SelectSeq(calls, LAMBDA c : c.kind \in K)
CallsOfPage(p, K) == SelectSeq(calls, LAMBDA c : c.page = p /\ c.kind \in K)

\* C4: a failed extraction or a failed format call ends the run there: the
\* failed call is the last call (no retry, no later call), no call at all
\* follows a failed extraction, and the file at the output path is as it was.
C4_AbortOnFailure ==
    /\ \A k \in DOMAIN calls :
          calls[k].status # 200 => (k = Len(calls) /\ pc = "error")
    /\ (pc = "error" /\ handle # "closed") => calls = <<>>
    /\ pc = "error" => (writes = 0 /\ output_file \in InitialFiles)

\* a format call failed after two that succeeded, with a file at the output path
C4_Witness ==
    /\ pc = "error"
    /\ Len(calls) >= 3
    /\ calls[Len(calls)].status # 200
    /\ output_path # ""
    /\ output_file = [exists |-> TRUE, content |-> "old"]

\* C5: the document handle is not open while a format call is in progress or
\* after the run has ended.
C5_HandleReleased ==
    (AtFormatCall \/ Ended) => handle # "open"

\* a comes before b in the order of the source
Precedes(a, b) ==
    LET PagePhase == {"chunk", "merge", "direct"} IN
    IF a.kind \in PagePhase
    THEN IF b.kind \in PagePhase
         THEN \/ a.page < b.page
              \/ /\ a.page = b.page
                 /\ a.kind = "chunk"
                 /\ \/ b.kind = "chunk" /\ a.index < b.index
                    \/ b.kind = "merge"
         ELSE TRUE
    ELSE /\ a.kind = "section"
         /\ \/ b.kind = "section" /\ a.at < b.at /\ a.index < b.index
            \/ b.kind = "cleanup"

\* the texts of the calls that ended the pages 1..n, each followed by a blank line
RECURSIVE PagesJoined(_)
PagesJoined(n) ==
    IF n = 0 THEN ""
    ELSE (PagesJoined(n - 1) \o CallsOfPage(n, {"merge", "direct"})[1].response) \o "\n\n"

\* C6: the calls are issued in the order of the source: page after page, the
\* chunks of a page in chunk order and before its merge call, the document
\* phase after the last page, sections by ascending offset before the cleanup
\* call; the file is written at most once and after the last call; and the
\* buffer is the outputs of the pages in page order, each with a blank line.
C6_SourceOrder ==
    /\ \A a, b \in DOMAIN calls : a < b => Precedes(calls[a], calls[b])
    /\ \A k \in DOMAIN CallsOfKind({"merge", "direct"}) :
          CallsOfKind({"merge", "direct"})[k].page = k
    /\ pc = "chunk" =>
          /\ Len(CallsOfPage(i + 1, {"chunk"})) = j
          /\ \A k \in 1..j :
                /\ CallsOfPage(i + 1, {"chunk"})[k].index = k
                /\ CallsOfPage(i + 1, {"chunk"})[k].content = chunks[k]
    /\ pc \notin {"open", "read", "error"} =>
          /\ Len(CallsOfKind({"merge", "direct"})) = i
          /\ full_content = PagesJoined(i)
    /\ writes <= 1
    /\ writes = 1 =>
          /\ pc = "done"
          /\ calls[Len(calls)].kind \in {"cleanup", "final"}
          /\ output_file.content = calls[Len(calls)].response

\* a run of two pages, the first of them chunked, with sections, wrote the file
C6_Witness ==
    /\ pc = "done"
    /\ writes = 1
    /\ Len(pages) = 2
    /\ Len(CallsOfPage(1, {"chunk"})) = 2
    /\ Len(CallsOfKind({"section"})) >= 2

\* the chunks of the texts of the pages of PageInputs
PageTexts == {PageRecord(0, p).text : p \in PageInputs}
ChunksOfPageText == [t \in PageTexts |-> _chunk_text(t, 8000)]

\* C7: in a run that succeeded, a page of at most 8000 characters got one call;
\* a longer page got one call for each of the k chunks of its text and then one
\* merge call over their outputs joined by blank lines; a buffer of at most
\* 12000 characters got one final call; a longer one got ceil(L / 9000) section
\* calls and then one cleanup call.
C7_CallCounts ==
    Succeeded =>
        /\ \A p \in DOMAIN pages :
              LET t == pages[p].text
                  chunkCalls == CallsOfPage(p, {"chunk"})
                  mergeCalls == CallsOfPage(p, {"merge"})
              IN  IF Len(t) <= 8000
                  THEN /\ Len(CallsOfPage(p, {"direct"})) = 1
                       /\ Len(chunkCalls) = 0
                       /\ Len(mergeCalls) = 0
                  ELSE /\ Len(CallsOfPage(p, {"direct"})) = 0
                       /\ Len(chunkCalls) = Len(ChunksOfPageText[t])
                       /\ Len(mergeCalls) = 1
                       /\ mergeCalls[1].content =
                              JoinChunks([k \in DOMAIN chunkCalls |-> chunkCalls[k].response])
        /\ LET L == Len(full_content) IN
           IF L <= 12000
           THEN /\ Len(CallsOfKind({"final"})) = 1
                /\ Len(CallsOfKind({"section", "cleanup"})) = 0
           ELSE /\ Len(CallsOfKind({"final"})) = 0
                /\ Len(CallsOfKind({"section"})) = (L + 8999) \div 9000
                /\ Len(CallsOfKind({"cleanup"})) = 1
                /\ calls[Len(calls)].kind = "cleanup"

\* a page of paragraphs of 4000 and 5000 characters got two chunk calls and a
\* merge call, a page of 8000 characters one call, and the buffer of exactly
\* 12000 characters one final call
C7_Witness ==
    /\ Succeeded
    /\ Len(full_content) = 12000
    /\ Len(pages) = 2
    /\ pages[1].text = (Paragraph4000 \o "\n\n") \o Paragraph5000
    /\ Len(CallsOfPage(1, {"chunk"})) = 2
    /\ Len(CallsOfPage(1, {"merge"})) = 1
    /\ pages[2].text = Text8000
    /\ Len(CallsOfPage(2, {"direct"})) = 1
    /\ Len(CallsOfKind({"final"})) = 1

Windows == CallsOfKind({"section"})
WindowEnd(w) == w.at + Len(w.content)
SectionsDone == Succeeded /\ Len(full_content) > 12000

\* the windows start at the multiples of 9000 below the length of the buffer,
\* each is the slice of the buffer at its offset, and together they cover it
WindowsCover ==
    /\ Len(Windows) = (Len(full_content) + 8999) \div 9000
    /\ \A k \in DOMAIN Windows :
          /\ Windows[k].at = 9000 * (k - 1)
          /\ Windows[k].at < Len(full_content)
          /\ Windows[k].content =
                SubSeq(full_content, Windows[k].at + 1, WindowEnd(Windows[k]))
    /\ \A k \in 1..(Len(Windows) - 1) : Windows[k + 1].at <= WindowEnd(Windows[k])
    /\ WindowEnd(Windows[Len(Windows)]) = Len(full_content)

\* C8 as stated: every window is 10000 characters long, consecutive windows
\* share exactly 1000 characters, every window holds a character no earlier
\* window held, and the windows cover the buffer.
C8_FixedWindows ==
    SectionsDone =>
        /\ WindowsCover
        /\ \A k \in DOMAIN Windows : Len(Windows[k].content) = 10000
        /\ \A k \in 1..(Len(Windows) - 1) :
              WindowEnd(Windows[k]) - Windows[k + 1].at = 1000
        /\ \A k \in 2..Len(Windows) : WindowEnd(Windows[k]) > WindowEnd(Windows[k - 1])

\* C8 amended: a window is 10000 characters long or ends with the buffer,
\* consecutive windows share 1000 characters or all of the later one, every
\* window but the last holds a character no earlier window held (the last one
\* does when more than 1000 characters follow its offset), and the windows
\* cover the buffer.
C8_ClippedWindows ==
    SectionsDone =>
        /\ WindowsCover
        /\ \A k \in DOMAIN Windows :
              Len(Windows[k].content) = Min(10000, Len(full_content) - Windows[k].at)
        /\ \A k \in 1..(Len(Windows) - 1) :
              WindowEnd(Windows[k]) - Windows[k + 1].at =
                  Min(1000, Len(full_content) - Windows[k + 1].at)
        /\ \A k \in 2..Len(Windows) :
              (k < Len(Windows) \/ Len(full_content) - Windows[k].at > 1000)
                  <=> WindowEnd(Windows[k]) > WindowEnd(Windows[k - 1])

\* three windows, the last of them wholly inside the one before it
C8_Witness ==
    /\ SectionsDone
    /\ Len(Windows) = 3
    /\ Len(Windows[1].content) = 10000
    /\ WindowEnd(Windows[3]) = WindowEnd(Windows[2])

=============================================================================
